---------------------------- MODULE Spec2Model ----------------------------
(***************************************************************************)
(* Model of the two scripts of fl-go:                                      *)
(*   scripts/create_initial_model.py  writes a flat file of packed         *)
(*                                    little-endian float32 weights;       *)
(*   scripts/train.py                 loads a checkpoint with torch.load,  *)
(*                                    trains, stores it with torch.save.   *)
(* The state is the file system the scripts act on and the position of     *)
(* the running script.                                                     *)
(***************************************************************************)
EXTENDS Integers, Sequences, FiniteSets, TLC

(***************************************************************************)
(* State.                                                                  *)
(***************************************************************************)
VARIABLES
  fs,          \* the file system: Nodes -> entry
  cmd,         \* the script that runs or ran last: "none", "create", "train"
  pc,          \* its position: the statement it is about to run, or "idle",
               \* "done" (returned), "raised" (left by an exception)
  model_path,  \* create_initial_model's arguments
  num_params,
  weights,     \* its list of doubles
  written,     \* how many elements of weights the loop has written
  err,         \* the exception that ended the script: [type, line]
  stdout,      \* what the script printed
  pre,         \* the file system when create_initial_model was last called
  prev,        \* the completed create_initial_model run before this one
  model_in,    \* train.py's --model-in and --model-out
  model_out,
  m            \* its model: the parameters of Net as binary32 words

gen == << model_path, num_params, weights, written >>
trn == << model_in, model_out, m >>
vars == << fs, cmd, pc, err, stdout, pre, prev, gen, trn >>

(***************************************************************************)
(* Binary arithmetic.  TLC's integers are 32 bits wide, a double's         *)
(* significand is 53: naturals are kept as sequences of bits, least        *)
(* significant bit first, with no leading (high) zero.                     *)
(***************************************************************************)
\* The index of the highest 1 of a (0 when there is none), and a without its
\* high zeros.
HighBit(a) ==
  IF \E j \in 1..Len(a) : a[j] = 1
  THEN CHOOSE j \in 1..Len(a) : a[j] = 1 /\ \A h \in (j + 1)..Len(a) : a[h] = 0
  ELSE 0

Norm(a) == SubSeq(a, 1, HighBit(a))

\* The number of low zeros of a # <<>>, and a shifted right by k bits.
LowZeros(a) == (CHOOSE j \in 1..Len(a) : a[j] = 1 /\ \A h \in 1..(j - 1) : a[h] = 0) - 1

Zeros(k) == [j \in 1..k |-> 0]

\* a + b, the carry into each position computed directly (carry look-ahead).
Add(a, b) ==
  LET n    == (IF Len(a) > Len(b) THEN Len(a) ELSE Len(b)) + 1
      A(j) == IF j <= Len(a) THEN a[j] ELSE 0
      B(j) == IF j <= Len(b) THEN b[j] ELSE 0
      C(j) == IF \E i \in 1..(j - 1) :
                   /\ A(i) = 1 /\ B(i) = 1
                   /\ \A h \in (i + 1)..(j - 1) : A(h) + B(h) = 1
              THEN 1 ELSE 0
  IN  Norm([j \in 1..n |-> (A(j) + B(j) + C(j)) % 2])

RECURSIVE NatBits(_)
NatBits(k) == IF k = 0 THEN <<>> ELSE <<k % 2>> \o NatBits(k \div 2)

RECURSIVE BitsNat(_)
BitsNat(a) == IF a = <<>> THEN 0 ELSE a[1] + 2 * BitsNat(Tail(a))

\* a * b by shift and add over the bits of b.
RECURSIVE Mul(_, _)
Mul(a, b) ==
  IF b = <<>> THEN <<>>
  ELSE LET rest == Mul(a, Tail(b))
           sh   == IF rest = <<>> THEN <<>> ELSE <<0>> \o rest
       IN  IF b[1] = 1 THEN Add(a, sh) ELSE sh

RECURSIVE Pow2(_)
Pow2(k) == IF k = 0 THEN 1 ELSE 2 * Pow2(k - 1)

(***************************************************************************)
(* A positive binary floating-point number is [sig, exp]: the value        *)
(* sig * 2^exp, sig a bit sequence as above.  RoundSig rounds it to a      *)
(* significand of exactly p bits, to nearest, ties to even (IEEE-754       *)
(* roundTiesToEven), which is what one floating-point operation and one    *)
(* conversion to a narrower format do.                                     *)
(***************************************************************************)
RoundSig(x, p) ==
  LET L == Len(x.sig)
  IN  IF L <= p
      THEN [sig |-> Zeros(p - L) \o x.sig, exp |-> x.exp - (p - L)]
      ELSE LET d      == L - p
               kept   == SubSeq(x.sig, d + 1, L)
               guard  == x.sig[d]
               sticky == \E j \in 1..(d - 1) : x.sig[j] = 1
               up     == guard = 1 /\ (sticky \/ kept[1] = 1)
               r      == IF up THEN Add(kept, <<1>>) ELSE kept
           IN  IF Len(r) > p
               THEN [sig |-> Tail(r), exp |-> x.exp + d + 1]
               ELSE [sig |-> r, exp |-> x.exp + d]

DoubleBits == 53
FloatBits == 24
FloatBias == 127

\* The Python literal 0.1: the double 0x3FB999999999999A, that is
\* 0x1999999999999A * 2^-56.  The significand is 1 1001 1001 ... 1001 1010.
RECURSIVE Nibbles(_)
Nibbles(k) == IF k = 0 THEN <<>> ELSE Nibbles(k - 1) \o <<1, 0, 0, 1>>

TenthSig == <<0, 1, 0, 1>> \o Nibbles(12) \o <<1>>

Tenth == [sig |-> TenthSig, exp |-> 0 - 56]

\* x with the low zeros of its significand moved into the exponent (the same
\* value).
Odd(x) ==
  LET z == LowZeros(x.sig)
  IN  [sig |-> SubSeq(x.sig, z + 1, Len(x.sig)), exp |-> x.exp + z]

\* Python's float product a * b of two doubles: the exact product rounded to
\* 53 bits.
FMul(a, b) ==
  LET oa == Odd(a)
      ob == Odd(b)
  IN  RoundSig([sig |-> Mul(oa.sig, ob.sig), exp |-> oa.exp + ob.exp], DoubleBits)

\* The int k > 0 converted to a double for the product (exact below 2^53).
IntToDouble(k) == RoundSig([sig |-> NatBits(k), exp |-> 0], DoubleBits)

\* weights[i] of create_initial_model, i counted from 0: 0.1 * (i + 1).
Weight(i) == FMul(Tenth, IntToDouble(i + 1))

\* The 4 bytes of a 32-bit word, least significant first.
LE32(w) ==
  << w % 256, (w \div 256) % 256, (w \div 65536) % 256, (w \div 16777216) % 256 >>

\* The binary32 word of a positive double x: sign 0, biased exponent,
\* 23 fraction bits; x is rounded to 24 significant bits.  (The weights are
\* far inside binary32's normal range: no subnormal, no OverflowError.)
FloatWord(x) ==
  LET r == RoundSig(x, FloatBits)
      e == r.exp + (FloatBits - 1) + FloatBias
      f == BitsNat(r.sig) - Pow2(FloatBits - 1)
  IN  e * Pow2(FloatBits - 1) + f

\* Mutant of struct_pack: struct.pack('>f', x), the big-endian order.
struct_pack_big_endian(x) ==
  LET b == LE32(FloatWord(x)) IN << b[4], b[3], b[2], b[1] >>

\* struct.pack('<f', x)
struct_pack(x) == LE32(FloatWord(x))


(***************************************************************************)
(* The file system.  A path is the sequence of its components; <<>> is     *)
(* the empty string '', which os.path.dirname returns for a bare file      *)
(* name.  Relative paths are resolved against the working directory,       *)
(* which exists and is a directory throughout.                             *)
(***************************************************************************)
Bare  == << "init_model.pt" >>
Dm    == << "models" >>
Fm    == << "models", "init_model.pt" >>
Ft    == << "models", "trained.pt" >>
Da    == << "a" >>
Dab   == << "a", "b" >>
Fab   == << "a", "b", "m.pt" >>

Nodes == {Bare, Dm, Fm, Ft, Da, Dab, Fab}

\* os.path.dirname
dirname(p) == SubSeq(p, 1, Len(p) - 1)

Absent    == [kind |-> "none", data |-> <<>>]
Directory == [kind |-> "dir", data |-> <<>>]
File(d)   == [kind |-> "file", data |-> d]

\* os.path.exists, os.path.isdir; the working directory is not a name: ''
\* names nothing.
exists(f, p) == p \in Nodes /\ f[p].kind # "none"
isdir(f, p)  == p \in Nodes /\ f[p].kind = "dir"

\* The directory a path's entry lives in is there: the working directory
\* for a single component, a directory node otherwise.
ParentIsDir(f, p) == Len(p) = 1 \/ isdir(f, dirname(p))

NoError == [type |-> "none", line |-> 0]
Raise(t, l) == [type |-> t, line |-> l]

\* os.mkdir(p): [fs, err].
mkdir(f, p) ==
  IF p = <<>> THEN [fs |-> f, err |-> "FileNotFoundError"]
  ELSE IF exists(f, p) THEN [fs |-> f, err |-> "FileExistsError"]
  ELSE IF ~ParentIsDir(f, p)
       THEN [fs |-> f,
             err |-> IF exists(f, dirname(p)) THEN "NotADirectoryError"
                     ELSE "FileNotFoundError"]
  ELSE [fs |-> [f EXCEPT ![p] = Directory], err |-> "none"]

\* os.makedirs(name, exist_ok=True): the missing ancestors first (a
\* FileExistsError of that recursion is swallowed), then mkdir(name), whose
\* OSError is swallowed only when name is a directory already.
RECURSIVE makedirs(_, _)
makedirs(f, name) ==
  LET head == dirname(name)
      up   == IF name # <<>> /\ head # <<>> /\ ~exists(f, head)
              THEN makedirs(f, head)
              ELSE [fs |-> f, err |-> "none"]
  IN  IF up.err \notin {"none", "FileExistsError"} THEN up
      ELSE LET r == mkdir(up.fs, name)
           IN  IF r.err # "none" /\ isdir(up.fs, name)
               THEN [fs |-> up.fs, err |-> "none"]
               ELSE r

\* Mutant of open_wb: open(p, 'ab'), which keeps what the file holds.
open_ab(f, p) ==
  IF isdir(f, p) THEN [fs |-> f, err |-> "IsADirectoryError"]
  ELSE IF ~ParentIsDir(f, p)
       THEN [fs |-> f,
             err |-> IF exists(f, dirname(p)) THEN "NotADirectoryError"
                     ELSE "FileNotFoundError"]
  ELSE [fs |-> [f EXCEPT ![p] = File(f[p].data)], err |-> "none"]

\* open(p, 'wb'): the file is created, or truncated to length 0.
open_wb(f, p) ==
  IF isdir(f, p) THEN [fs |-> f, err |-> "IsADirectoryError"]
  ELSE IF ~ParentIsDir(f, p)
       THEN [fs |-> f,
             err |-> IF exists(f, dirname(p)) THEN "NotADirectoryError"
                     ELSE "FileNotFoundError"]
  ELSE [fs |-> [f EXCEPT ![p] = File(<<>>)], err |-> "none"]

\* f.write(b) on the file open at p.
file_write(f, p, b) == [f EXCEPT ![p] = File(f[p].data \o b)]

\* range(n): the indices 0 .. n-1, none when n <= 0.
range(n) == [j \in 1..n |-> j - 1]

\* Mutant of Weights: the list is a mutable default argument, which keeps the
\* elements of the call before.
WeightsKept(n) ==
  (IF prev.n >= 0 THEN prev.weights ELSE <<>>)
    \o [j \in 1..Len(range(n)) |-> Weight(range(n)[j])]

\* Mutant of Weights: range(num_params + 1), one element too many.
WeightsOneMore(n) == [j \in 1..Len(range(n + 1)) |-> Weight(range(n + 1)[j])]

\* weights = [0.1 * (i + 1) for i in range(num_params)]
Weights(n) == [j \in 1..Len(range(n)) |-> Weight(range(n)[j])]


\* Largest --size tried.
MaxParams == 2

Sizes == 0..MaxParams

\* The --output values tried: a bare file name, the default
\* models/init_model.pt, and a path two directories deep.
Outputs == {Bare, Fm, Fab}

\* Content of a file that is there before any script ran.
Foreign == << 1, 2, 3 >>

InitKinds(p) ==
  IF p = Dm \/ p = Fm THEN {Absent, Directory, File(Foreign)}
  ELSE IF p = Da \/ p = Dab THEN {Absent, Directory}
  ELSE {Absent, File(Foreign)}

\* Every entry lives in a directory.
WellFormed(f) == \A p \in Nodes : exists(f, p) => ParentIsDir(f, p)

InitialFileSystems ==
  {f \in [Nodes -> {Absent, Directory, File(Foreign)}] :
     WellFormed(f) /\ \A p \in Nodes : f[p] \in InitKinds(p)}

NoRun == [n |-> 0 - 1, path |-> <<>>, data |-> <<>>, weights |-> <<>>]

NoFiles == [p \in Nodes |-> Absent]

InitWith(systems) ==
  /\ fs \in systems
  /\ cmd = "none"
  /\ pc = "idle"
  /\ model_path = <<>>
  /\ num_params = 0
  /\ weights = <<>>
  /\ written = 0
  /\ err = NoError
  /\ stdout = <<>>
  /\ pre = NoFiles
  /\ prev = NoRun
  /\ model_in = <<>>
  /\ model_out = <<>>
  /\ m = <<>>

Init == InitWith(InitialFileSystems)

Stopped == pc \in {"idle", "done", "raised"}

\* The run that just ended, when it was a completed create_initial_model.
LastRun ==
  IF cmd = "create" /\ pc = "done"
  THEN [n |-> num_params, path |-> model_path, data |-> fs[model_path].data,
        weights |-> weights]
  ELSE prev

(***************************************************************************)
(* scripts/create_initial_model.py                                         *)
(***************************************************************************)
\* __main__: create_initial_model(args.output, args.size)
Main(output, size) ==
  /\ Stopped
  /\ cmd' = "create"
  /\ pc' = "makedirs"
  /\ model_path' = output
  /\ num_params' = size
  /\ weights' = <<>>
  /\ written' = 0
  /\ err' = NoError
  /\ stdout' = <<>>
  /\ pre' = fs
  /\ prev' = LastRun
  /\ UNCHANGED << fs, trn >>

\* line 12, os.makedirs(os.path.dirname(model_path), exist_ok=True), and
\* line 15, the list of weights.
EnsureDir ==
  /\ cmd = "create" /\ pc = "makedirs"
  /\ LET r == makedirs(fs, dirname(model_path))
     IN  IF r.err # "none"
         THEN /\ pc' = "raised"
              /\ err' = Raise(r.err, 12)
              /\ UNCHANGED << fs, weights >>
         ELSE /\ pc' = "open"
              /\ fs' = r.fs
              /\ weights' = Weights(num_params)
              /\ UNCHANGED err
  /\ UNCHANGED << cmd, model_path, num_params, written, stdout, pre, prev, trn >>

\* line 17, with open(model_path, 'wb') as f
OpenFile ==
  /\ cmd = "create" /\ pc = "open"
  /\ LET r == open_wb(fs, model_path)
     IN  IF r.err # "none"
         THEN /\ pc' = "raised"
              /\ err' = Raise(r.err, 17)
              /\ UNCHANGED fs
         ELSE /\ pc' = "write"
              /\ fs' = r.fs
              /\ UNCHANGED err
  /\ written' = 0
  /\ UNCHANGED << cmd, model_path, num_params, weights, stdout, pre, prev, trn >>

\* lines 18-19, one turn of the loop: f.write(struct.pack('<f', weight)).
\* (Python buffers the writes; the model writes through, which leaves the
\* same file when the block is left.)
WriteWeight ==
  /\ cmd = "create" /\ pc = "write"
  /\ written < Len(weights)
  /\ fs' = file_write(fs, model_path, struct_pack(weights[written + 1]))
  /\ written' = written + 1
  /\ UNCHANGED << cmd, pc, model_path, num_params, weights, err, stdout, pre, prev, trn >>

\* line 19 when the device cannot take the bytes (ENOSPC, EIO): f.write
\* raises OSError, the with block closes the file and the exception leaves
\* the function.
WriteFails ==
  /\ cmd = "create" /\ pc = "write"
  /\ written < Len(weights)
  /\ pc' = "raised"
  /\ err' = Raise("OSError", 19)
  /\ UNCHANGED << fs, cmd, model_path, num_params, weights, written, stdout, pre, prev, trn >>

\* The loop is over: the file is closed, lines 21-22 print, the function
\* returns.
Finish ==
  /\ cmd = "create" /\ pc = "write"
  /\ written = Len(weights)
  /\ pc' = "done"
  /\ stdout' = << model_path, Len(weights), Len(weights) * 4 >>
  /\ UNCHANGED << fs, cmd, model_path, num_params, weights, written, err, pre, prev, trn >>

Create(outputs) ==
  \/ \E output \in outputs, size \in Sizes : Main(output, size)
  \/ EnsureDir
  \/ OpenFile
  \/ WriteWeight
  \/ WriteFails
  \/ Finish

Next == Create(Outputs)

Spec == Init /\ [][Next]_vars


(***************************************************************************)
(* Properties of create_initial_model.                                     *)
(***************************************************************************)
Returned == cmd = "create" /\ pc = "done"
Raised   == cmd = "create" /\ pc = "raised"

\* The 4 bytes of element i (from 0) of a file's content.
Group(d, i) == SubSeq(d, 4 * i + 1, 4 * i + 4)

\* C1. Size invariant: once create_initial_model(path, n) has returned, the
\* file at path is a regular file of exactly 4 * n bytes, for every n >= 0
\* and every path.
C1_SizeInvariant ==
  Returned =>
    /\ fs[model_path].kind = "file"
    /\ Len(fs[model_path].data) = 4 * num_params

\* A call with n = 2 has returned, over a file that was there before.
C1_Witness ==
  /\ Returned
  /\ num_params = 2
  /\ pre[model_path].kind = "file"
  /\ Len(fs[model_path].data) = 8

\* The binary32 encodings of 0.1, 0.2, 0.3, 0.4, 0.5, 0.6 as bytes in file
\* order: 3DCCCCCD, 3E4CCCCD, 3E99999A, 3ECCCCCD, 3F000000, 3F19999A.
KnownGroups ==
  << << 205, 204, 204, 61 >>, << 205, 204, 76, 62 >>, << 154, 153, 153, 62 >>,
     << 205, 204, 204, 62 >>, << 0, 0, 0, 63 >>, << 154, 153, 25, 63 >> >>

\* C2. Ordered encoding: once the call has returned, for every i < n the
\* bytes at offsets 4i .. 4i+3 of the file are the little-endian binary32
\* encoding of the i-th generated value 0.1 * (i + 1), which for the first
\* six values are the byte groups written out above.
C2_OrderedEncoding ==
  Returned =>
    \A i \in 0..(num_params - 1) :
      /\ Group(fs[model_path].data, i) = struct_pack(Weight(i))
      /\ i < Len(KnownGroups) => Group(fs[model_path].data, i) = KnownGroups[i + 1]

\* A call with n = 2 has returned and the file holds 0.1 then 0.2.
C2_Witness ==
  /\ Returned
  /\ num_params = 2
  /\ fs[model_path].data = KnownGroups[1] \o KnownGroups[2]

\* C6. Parent directory ensured: whatever the output path (its directory
\* there, missing at one or more levels, or no directory component at all),
\* line 12 does not raise and the open of line 17 does not fail for a missing
\* parent directory.  Paths with a regular file in the place of one of their
\* directories are left aside.
NoFileInTheWay ==
  \A j \in 1..(Len(model_path) - 1) : pre[SubSeq(model_path, 1, j)].kind # "file"

C6_ParentEnsured ==
  (Raised /\ NoFileInTheWay) =>
    /\ err.line # 12
    /\ err.type \notin {"FileNotFoundError", "NotADirectoryError"}

\* C7. Atomic write: when create_initial_model raises, the file at the output
\* path is what it was before the call (not truncated, not a prefix, a file
\* that was there not destroyed).
C7_AtomicWrite == Raised => fs[model_path] = pre[model_path]

\* C8. Deterministic generation: a call that returns with the count n of the
\* completed call before it has built the same list of weights and left the
\* same file content, whatever the two paths and file systems were.
C8_Deterministic ==
  (Returned /\ prev.n = num_params) =>
    /\ weights = prev.weights
    /\ fs[model_path].data = prev.data

\* Two completed calls with the same n > 0 on different paths, the second over
\* a file that was there already.
C8_Witness ==
  /\ Returned
  /\ prev.n = num_params
  /\ num_params > 0
  /\ prev.path # model_path
  /\ pre[model_path].kind = "file"

\* C9. Idempotent directory creation: when the directory the output file
\* goes into is there already when the call starts, line 12 raises nothing
\* and changes nothing: every directory and every other file is as before.
ParentThere == Len(model_path) = 1 \/ pre[dirname(model_path)].kind = "dir"

C9_EnsureDirNoOp ==
  (cmd = "create" /\ pc \notin {"idle", "makedirs"} /\ ParentThere) =>
    /\ err.line # 12
    /\ \A p \in Nodes \ {model_path} : fs[p] = pre[p]

\* What does hold of line 12: for an output path with a directory component,
\* the step never raises when no regular file is in the way, and it changes
\* nothing when the directory is there.  (Invariants of Spec.)
NamedDirEnsured ==
  (Raised /\ NoFileInTheWay /\ Len(model_path) > 1) =>
    /\ err.line # 12
    /\ err.type \notin {"FileNotFoundError", "NotADirectoryError"}

NamedDirNoOp ==
  (cmd = "create" /\ pc \notin {"idle", "makedirs"} /\ ParentThere
     /\ Len(model_path) > 1) =>
    /\ err.line # 12
    /\ \A p \in Nodes \ {model_path} : fs[p] = pre[p]

\* The encoding of a list of doubles: the loop of lines 18-19 on a file that
\* starts empty.
RECURSIVE Encode(_)
Encode(v) == IF v = <<>> THEN <<>> ELSE struct_pack(Head(v)) \o Encode(Tail(v))

\* C10. Overwrite leaves no stale bytes: a call that returns on a path that
\* held a file leaves exactly the bytes a call with the same n leaves on a
\* fresh path, the encoding of its n weights, and nothing of the old content.
C10_NoStaleBytes ==
  (Returned /\ pre[model_path].kind = "file") =>
    fs[model_path].data = Encode(Weights(num_params))

\* The path held the longer output of the call before, with a larger n.
C10_Witness ==
  /\ Returned
  /\ prev.path = model_path
  /\ prev.n > num_params
  /\ pre[model_path].data = prev.data
  /\ Len(pre[model_path].data) > Len(fs[model_path].data)


(***************************************************************************)
(* scripts/train.py.  Of torch's checkpoint container the model keeps      *)
(* what the scripts' files can be told apart by: torch.save writes a zip   *)
(* archive, which starts with the local-file-header signature "PK\3\4",    *)
(* holds the parameters as raw little-endian binary32 storage and ends     *)
(* with the end-of-central-directory record, signature "PK\5\6";           *)
(* torch.load takes a file that starts with "PK\3\4" for such an archive   *)
(* and hands every other file to the unpickler.  The archive's pickle,     *)
(* its names and its alignment padding are left out.  The download of the  *)
(* data set and the numbers the optimiser produces are outside the model:  *)
(* training ends with some parameters.                                     *)
(***************************************************************************)
\* Net: fc = nn.Linear(28*28, 10), a weight matrix and a bias vector.
in_features  == 28 * 28
out_features == 10
NetParams    == out_features * in_features + out_features

ZipLocalSig == << 80, 75, 3, 4 >>
ZipEndSig   == << 80, 75, 5, 6 >>

\* A tensor of n parameters that all hold the binary32 word w.
Tensor(n, w) == [j \in 1..n |-> w]

\* The raw storage of a sequence of binary32 words.
Storage(ws) ==
  [j \in 1..(4 * Len(ws)) |-> LE32(ws[((j - 1) \div 4) + 1])[((j - 1) % 4) + 1]]

\* The words of a raw storage.
Words(d) ==
  [j \in 1..(Len(d) \div 4) |->
     d[4 * j - 3] + 256 * d[4 * j - 2] + 65536 * d[4 * j - 1] + 16777216 * d[4 * j]]

\* The bytes torch.save(state_dict, path) writes.
checkpoint(ws) == ZipLocalSig \o Storage(ws) \o ZipEndSig

\* torch.save(obj, p): [fs, err].  The archive writer does not create
\* directories.
torch_save(f, p, ws) ==
  IF isdir(f, p) \/ ~ParentIsDir(f, p)
  THEN [fs |-> f, err |-> "RuntimeError"]
  ELSE [fs |-> [f EXCEPT ![p] = File(checkpoint(ws))], err |-> "none"]

\* torch.load(p): [value, err].
torch_load(f, p) ==
  IF ~exists(f, p) THEN [value |-> <<>>, err |-> "FileNotFoundError"]
  ELSE IF isdir(f, p) THEN [value |-> <<>>, err |-> "IsADirectoryError"]
  ELSE LET d == f[p].data
           n == Len(d)
       IN  IF n = 0 THEN [value |-> <<>>, err |-> "EOFError"]
           ELSE IF n >= 4 /\ SubSeq(d, 1, 4) = ZipLocalSig
           THEN IF n >= 8 /\ SubSeq(d, n - 3, n) = ZipEndSig /\ (n - 8) % 4 = 0
                THEN [value |-> Words(SubSeq(d, 5, n - 4)), err |-> "none"]
                ELSE [value |-> <<>>, err |-> "RuntimeError"]
           ELSE [value |-> <<>>, err |-> "UnpicklingError"]

\* m.load_state_dict(sd): the tensors must have the shapes of Net's.
load_state_dict(ws) == IF Len(ws) = NetParams THEN "none" ELSE "RuntimeError"

\* Values the parameters are given to hold after training: 0.2 and 0.5.
TrainedWords == {FloatWord(Weight(1)), FloatWord(Weight(4))}

\* __main__, lines 13-18: the arguments are parsed.
TrainMain(input, output) ==
  /\ Stopped
  /\ cmd' = "train"
  /\ pc' = "load"
  /\ model_in' = input
  /\ model_out' = output
  /\ m' = <<>>
  /\ err' = NoError
  /\ stdout' = <<>>
  /\ prev' = LastRun
  /\ UNCHANGED << fs, pre, gen >>

\* lines 20-23: m = Net(); m.load_state_dict(torch.load(args.model_in))
LoadModel ==
  /\ cmd = "train" /\ pc = "load"
  /\ LET r == torch_load(fs, model_in)
         e == IF r.err # "none" THEN r.err ELSE load_state_dict(r.value)
     IN  IF e # "none"
         THEN /\ pc' = "raised"
              /\ err' = Raise(e, 23)
              /\ UNCHANGED m
         ELSE /\ pc' = "train"
              /\ m' = r.value
              /\ UNCHANGED err
  /\ UNCHANGED << fs, cmd, stdout, pre, prev, gen, model_in, model_out >>

\* lines 24-32: the epochs of SGD.
TrainEpochs ==
  /\ cmd = "train" /\ pc = "train"
  /\ \E w \in TrainedWords : m' = Tensor(NetParams, w)
  /\ pc' = "save"
  /\ UNCHANGED << fs, cmd, err, stdout, pre, prev, gen, model_in, model_out >>

\* line 33: torch.save(m.state_dict(), args.model_out)
SaveModel ==
  /\ cmd = "train" /\ pc = "save"
  /\ LET r == torch_save(fs, model_out, m)
     IN  IF r.err # "none"
         THEN /\ pc' = "raised"
              /\ err' = Raise(r.err, 33)
              /\ UNCHANGED fs
         ELSE /\ pc' = "done"
              /\ fs' = r.fs
              /\ UNCHANGED err
  /\ UNCHANGED << cmd, stdout, pre, prev, gen, trn >>

Train(ins, outs) ==
  \/ \E input \in ins, output \in outs : TrainMain(input, output)
  \/ LoadModel
  \/ TrainEpochs
  \/ SaveModel

\* The two scripts on the files of models/, which is there; the initial
\* model file is missing, a foreign file, or a checkpoint of Net holding 0.1
\* throughout.
TrainFileSystems ==
  {[p \in Nodes |-> IF p = Dm THEN Directory ELSE IF p = Fm THEN e ELSE Absent] :
     e \in {Absent, File(Foreign),
            File(checkpoint(Tensor(NetParams, FloatWord(Weight(0)))))}}

InitTrain == InitWith(TrainFileSystems)

NextTrain == Create({Fm}) \/ Train({Fm}, {Fm, Ft})

SpecTrain == InitTrain /\ [][NextTrain]_vars


(***************************************************************************)
(* Properties of the two scripts together: the file create_initial_model   *)
(* writes, read back by train.py.                                          *)
(***************************************************************************)
\* train.py has run line 23, the one statement that reads a model file.
Loaded == cmd = "train" /\ (pc = "train" \/ (pc = "raised" /\ err.line = 23))

\* The file it read (line 23 leaves the file system as it is) is the output
\* of the create_initial_model call that completed just before.
ReadGenerated ==
  /\ prev.n >= 0
  /\ prev.path = model_in
  /\ fs[model_in] = File(prev.data)

\* The binary32 values of a list of doubles.
Floats(v) == [j \in 1..Len(v) |-> FloatWord(v[j])]

\* C3. Round-trip identity: reading back the file the generator wrote for
\* the sequence v yields v, as binary32 values in the same order (the empty
\* sequence included).
C3_RoundTrip ==
  (Loaded /\ ReadGenerated) =>
    /\ pc = "train"
    /\ m = Floats(prev.weights)

\* C4. Malformed input rejection: reading a file whose length is not a
\* multiple of 4 fails with MalformedBufferError and yields no elements;
\* reading one whose length is a multiple of 4 never raises that error.
C4_MalformedRejected ==
  (Loaded /\ fs[model_in].kind = "file") =>
    IF Len(fs[model_in].data) % 4 # 0
    THEN pc = "raised" /\ err.type = "MalformedBufferError" /\ m = <<>>
    ELSE err.type # "MalformedBufferError"

\* C5. Shared file format: (i) train.py accepts as --model-in a file that
\* create_initial_model produced, and (ii) the file train.py leaves at
\* --model-out holds 4 * N bytes for the N parameters of its model.
C5_SharedFormat ==
  /\ (Loaded /\ ReadGenerated) => pc = "train"
  /\ (cmd = "train" /\ pc = "done") =>
       /\ fs[model_out].kind = "file"
       /\ Len(fs[model_out].data) = 4 * Len(m)

=============================================================================
